---------------------------- MODULE Spec2Model ----------------------------
(***************************************************************************)
(* A model of the driver of scs 1.0 (src/src/scs.c): scs, scs_init,        *)
(* scs_solve, scs_finish and the static helpers they call.                 *)
(*                                                                         *)
(* Numbers.  The iterates u and v live on an integer grid; everything the  *)
(* code derives from them by division (residual ratios, the extracted      *)
(* solution) is an extended rational [n, d] with d >= 0, where d = 0       *)
(* stands for the IEEE values: 0/0 is NaN, 1/0 is +Inf, -1/0 is -Inf.      *)
(* The one valid problem size is n = m = 1 (l = 3), for which every        *)
(* calcNorm of a data vector is an absolute value.                         *)
(***************************************************************************)
EXTENDS Integers, Sequences, FiniteSets, TLC

\* ------------------------------------------------------------ bounds
\* Largest MAX_ITERS the caller passes.
MaxIters == 21
\* The iterates u, v stay within -MaxVal..MaxVal (larger values are cut off).
MaxVal == 2
\* Largest number of scs_solve calls on one workspace.
MaxSolves == 2

\* ------------------------------------------------- program constants
CONVERGED_INTERVAL == 20
FAILURE == -4
INDETERMINATE == -3
INFEASIBLE == -2
UNBOUNDED == -1
SOLVED == 1

\* ------------------------------------------------ pfloat arithmetic
Abs(x) == IF x < 0 THEN -x ELSE x

RECURSIVE Gcd(_, _)
Gcd(a, b) == IF b = 0 THEN a ELSE Gcd(b, a % b)

\* The extended rational n/d in lowest terms, d >= 0.
Rat(n, d) ==
    LET s == IF d < 0 THEN -1 ELSE 1
        g == Gcd(Abs(n), Abs(d))
    IN  IF g = 0 THEN [n |-> 0, d |-> 0]
        ELSE [n |-> (s * n) \div g, d |-> (s * d) \div g]

NAN == [n |-> 0, d |-> 0]
I(x) == [n |-> x, d |-> 1]
IsNaN(a) == a.n = 0 /\ a.d = 0
IsFinite(a) == a.d > 0

RMul(a, b) == Rat(a.n * b.n, a.d * b.d)
RDiv(a, b) == Rat(a.n * b.d, a.d * b.n)
RAdd(a, b) == Rat(a.n * b.d + b.n * a.d, a.d * b.d)
RNeg(a) == [n |-> -a.n, d |-> a.d]
RSub(a, b) == RAdd(a, RNeg(b))
RAbs(a) == [n |-> Abs(a.n), d |-> a.d]
\* a < b of C doubles: false when either side is NaN.
RLt(a, b) ==
    /\ ~IsNaN(a)
    /\ ~IsNaN(b)
    /\ IF a.d = 0 /\ b.d = 0 THEN a.n < b.n ELSE a.n * b.d < b.n * a.d
\* The macro MAX(a,b): ((a) > (b)) ? (a) : (b).
RMax(a, b) == IF RLt(b, a) THEN a ELSE b

\* sqrt rounded to the nearest grid point.
Sqrt(k) == CHOOSE r \in 0..(k + 1) :
               /\ r = 0 \/ (2 * r - 1) * (2 * r - 1) <= 4 * k
               /\ 4 * k < (2 * r + 1) * (2 * r + 1)

RECURSIVE SumSq(_)
SumSq(a) == IF a = <<>> THEN 0 ELSE Head(a) * Head(a) + SumSq(Tail(a))

RECURSIVE innerProd(_, _)
innerProd(a, b) ==
    IF a = <<>> \/ b = <<>> THEN 0
    ELSE Head(a) * Head(b) + innerProd(Tail(a), Tail(b))

calcNorm(a) == Sqrt(SumSq(a))

\* scaleArray(a, f, len) on a vector of extended rationals.
scaleArray(a, f) == [j \in DOMAIN a |-> RMul(a[j], f)]


\* ------------------------------------------------------------- state
VARIABLES
    pc,      \* where the caller is: "idle", "ready", "loop", "extract",
             \* "returned", "crashed"
    mode,    \* "scs": one call of scs; "api": scs_init, scs_solve.., scs_finish
    d,       \* Data (NULL when ~d.present); A, b, c are scaled in place
    k,       \* Cone (NULL when ~k.present)
    sol,     \* Sol: per vector the pointer and the values it points to
    info,    \* Info: statusVal, status, iter
    w,       \* Work
    heap,    \* per workspace buffer: times allocated, times freed
    i,       \* loop index of scs_solve
    chk,     \* the last call of converged(): its iter and what it returned
    ret,     \* value returned by scs / scs_init ("none" before it returns)
    cnt,     \* calls made so far: solve, finish, normA, unnormA, normBC,
             \* unnormBC, and per sol vector the solver's allocations
    log,     \* collaborator calls in order
    in       \* the caller's arguments as passed

vars == <<pc, mode, d, k, sol, info, w, heap, i, chk, ret, cnt, log, in>>

\* ------------------------------------------------------------ inputs
\* What the linear-system subsolver may write per entry.
LinSysOut == {-1, 0, 1}
\* Values a read through a NULL Data pointer may yield for n and m.
GarbageDims == {0, 1}

Half == [n |-> 1, d |-> 2]

\* A well-formed problem: n = m = 1, A = [1].
GoodData(b, c, alpha, eps, maxIters, normalize, warm, undet) ==
    [present |-> TRUE, arrays |-> TRUE, n |-> 1, m |-> 1,
     Ap |-> <<0, 1>>, Ai |-> <<0>>, Ax |-> <<1>>, b |-> <<b>>, c |-> <<c>>,
     MAX_ITERS |-> maxIters, EPS |-> eps, ALPHA |-> alpha, RHO_X |-> I(0),
     NORMALIZE |-> normalize, WARM_START |-> warm, UNDET_TOL |-> undet,
     VERBOSE |-> 0, SCALE |-> IF normalize = 1 THEN 2 ELSE 1]

BaseData == GoodData(1, 1, I(1), Half, 1, 0, 0, Half)

\* One defect each, in the order validate() tests them.
BadData ==
    { [BaseData EXCEPT !.arrays = FALSE],
      [BaseData EXCEPT !.n = 0, !.c = <<>>, !.Ap = <<0>>],
      [BaseData EXCEPT !.m = 0, !.b = <<>>],
      [BaseData EXCEPT !.n = 2, !.c = <<1, 1>>, !.Ap = <<0, 1, 2>>,
                       !.Ai = <<0, 0>>, !.Ax = <<1, 1>>],
      [BaseData EXCEPT !.Ap = <<0, 0>>],
      [BaseData EXCEPT !.Ap = <<-1, 0>>],
      [BaseData EXCEPT !.Ap = <<0, 2>>, !.Ai = <<0, 0>>, !.Ax = <<1, 1>>],
      [BaseData EXCEPT !.Ai = <<1>>],
      [BaseData EXCEPT !.MAX_ITERS = -1],
      [BaseData EXCEPT !.EPS = RNeg(Half)],
      [BaseData EXCEPT !.ALPHA = I(0)],
      [BaseData EXCEPT !.ALPHA = I(2)],
      [BaseData EXCEPT !.RHO_X = I(-1)],
      [BaseData EXCEPT !.NORMALIZE = 1, !.SCALE = 2, !.m = 0, !.b = <<>>] }

\* Cone: f = size of the zero cone, l = size of the positive orthant.
GoodCone(f, l) == [present |-> TRUE, valid |-> TRUE, f |-> f, l |-> l]
BadCone == { [GoodCone(1, 0) EXCEPT !.valid = FALSE], GoodCone(1, 1) }
NullData == [BaseData EXCEPT !.present = FALSE]
NullCone == [GoodCone(1, 0) EXCEPT !.present = FALSE]

\* ---------------------------------------------------------- validate
validateCones(kk) == IF kk.valid THEN 0 ELSE -1
getFullConeDims(kk) == kk.f + kk.l

validate(dd, kk) ==
    IF ~dd.arrays THEN -1
    ELSE IF dd.m <= 0 \/ dd.n <= 0 THEN -1
    ELSE IF dd.m < dd.n THEN -1
    ELSE IF \E j \in 1..dd.n : dd.Ap[j] >= dd.Ap[j + 1] THEN -1
    ELSE LET Anz == dd.Ap[dd.n + 1]
             rMax == IF \E j \in 1..Anz : dd.Ai[j] > 0
                     THEN CHOOSE r \in {dd.Ai[j] : j \in 1..Anz} :
                              \A j \in 1..Anz : dd.Ai[j] <= r
                     ELSE 0
         IN  IF Anz > dd.n * dd.m \/ Anz <= 0 THEN -1
             ELSE IF rMax > dd.m - 1 THEN -1
             ELSE IF validateCones(kk) < 0 THEN -1
             ELSE IF getFullConeDims(kk) # dd.m THEN -1
             ELSE IF dd.MAX_ITERS < 0 THEN -1
             ELSE IF RLt(dd.EPS, I(0)) THEN -1
             ELSE IF ~RLt(I(0), dd.ALPHA) \/ ~RLt(dd.ALPHA, I(2)) THEN -1
             ELSE IF RLt(dd.RHO_X, I(0)) THEN -1
             ELSE 0

\* ------------------------------------------------ failureDefaultReturn
NaNs(len) == [j \in 1..len |-> NAN]

\* With the n and m it read from d: info is set, then sol.x, sol.y, sol.s
\* are assigned fresh buffers of NaN.
failureDefaultReturn(dn, dm, s, c) ==
    [info |-> [statusVal |-> FAILURE, status |-> "Failure", iter |-> -1,
               pobj |-> NAN, dobj |-> NAN],
     sol  |-> [x |-> [ptr |-> "solver", val |-> NaNs(dn)],
               y |-> [ptr |-> "solver", val |-> NaNs(dm)],
               s |-> [ptr |-> "solver", val |-> NaNs(dm)]],
     cnt  |-> [c EXCEPT !.allocx = @ + 1, !.allocy = @ + 1, !.allocs = @ + 1]]


\* --------------------------------------------------------- workspace
\* Buffers initWork allocates itself, those normalizeA allocates (D, E)
\* and those privateInitWork allocates (method, p).
WorkBufs == {"w", "u", "v", "u_t", "u_prev", "h", "g", "pr", "dr"}
NormBufs == {"D", "E"}
PrivBufs == {"method", "p"}
AllBufs == WorkBufs \cup NormBufs \cup PrivBufs

NoWork ==
    [ptr |-> {}, l |-> 0, u |-> <<>>, v |-> <<>>, u_t |-> <<>>,
     u_prev |-> <<>>, h |-> <<>>, nm_b |-> 0, nm_c |-> 0,
     D |-> <<>>, E |-> <<>>, sc_b |-> 1, sc_c |-> 1, scale |-> 1]

Zeros(len) == [j \in 1..len |-> 0]

\* scs_malloc of the buffers bs, the pointers stored in w.
Malloc(st, bs) ==
    [st EXCEPT !.heap = [b \in AllBufs |->
                            IF b \in bs THEN [@[b] EXCEPT !.allocs = @ + 1]
                            ELSE @[b]],
               !.w.ptr = @ \cup bs]

\* free of every buffer of bs.
Free(st, bs) ==
    [st EXCEPT !.heap = [b \in AllBufs |->
                            IF b \in bs THEN [@[b] EXCEPT !.frees = @ + 1]
                            ELSE @[b]]]

\* normalize.h, for A = [1] (so D = E = 1) and |b| = |c| = 1 (so
\* sc_b = sc_c = 1): A, b and c are multiplied by the global scale.
normalizeA(st) ==
    LET a == Malloc(st, NormBufs)
    IN  [a EXCEPT !.d.Ax = [j \in DOMAIN @ |-> @[j] * st.d.SCALE],
                  !.w.D = [j \in 1..st.d.m |-> 1],
                  !.w.E = [j \in 1..st.d.n |-> 1],
                  !.w.sc_b = 1, !.w.sc_c = 1, !.w.scale = st.d.SCALE,
                  !.cnt.normA = @ + 1]

unNormalizeA(st) ==
    [st EXCEPT !.d.Ax = [j \in DOMAIN @ |-> @[j] \div st.w.scale],
               !.cnt.unnormA = @ + 1]

normalizeBC(st) ==
    [st EXCEPT !.d.b = [j \in DOMAIN @ |-> @[j] * st.w.scale * st.w.sc_b],
               !.d.c = [j \in DOMAIN @ |-> @[j] * st.w.scale * st.w.sc_c],
               !.cnt.normBC = @ + 1]

\* x <- E x / (sc_b scale), y <- D y / (sc_c scale), s <- s / (D sc_b scale);
\* b and c are divided by what normalizeBC multiplied them by.
unNormalizeSolBC(st) ==
    LET fx == Rat(1, st.w.sc_b * st.w.scale)
        fy == Rat(1, st.w.sc_c * st.w.scale)
    IN  [st EXCEPT !.sol.x.val = scaleArray(@, fx),
                   !.sol.y.val = scaleArray(@, fy),
                   !.sol.s.val = scaleArray(@, fx),
                   !.d.b = [j \in DOMAIN @ |-> @[j] \div (st.w.scale * st.w.sc_b)],
                   !.d.c = [j \in DOMAIN @ |-> @[j] \div (st.w.scale * st.w.sc_c)],
                   !.cnt.unnormBC = @ + 1]

\* The subsolver's privateInitWork: sets w->method and its private state,
\* then reports status.
privateInitWork(st, status) ==
    [Malloc(st, PrivBufs) EXCEPT
        !.log = Append(@, IF status < 0 THEN "privateInitWork-"
                                        ELSE "privateInitWork+")]

initCone(st, status) ==
    [st EXCEPT !.log = Append(@, IF status < 0 THEN "initCone-" ELSE "initCone+")]

finishCone(st) == [st EXCEPT !.log = Append(@, "finishCone")]

freePriv(st) ==
    [Free(st, {"p"} \cap st.w.ptr) EXCEPT !.log = Append(@, "freePriv")]

\* Faulty variant: the residual scratch pr, dr is not freed.
freeWork_leak(st) ==
    IF "w" \in st.w.ptr
    THEN Free(st, st.w.ptr \cap (((WorkBufs \ {"pr", "dr"}) \cup NormBufs)
                                     \cup {"method"}))
    ELSE st

\* Every non-NULL field is freed, then w itself.
freeWork(st) ==
    IF "w" \in st.w.ptr
    THEN Free(st, st.w.ptr \cap (((WorkBufs \cup NormBufs) \cup {"method"})))
    ELSE st

\* Faulty variant: A is left scaled.
scs_finish_keepA(st) ==
    [freeWork(freePriv(finishCone(st))) EXCEPT !.cnt.finish = @ + 1]

scs_finish_body(st) ==
    LET a == IF st.d.NORMALIZE = 1 THEN unNormalizeA(st) ELSE st
    IN  [freeWork(freePriv(finishCone(a))) EXCEPT !.cnt.finish = @ + 1]

\* Faulty variant: the failure paths return NULL without scs_finish.
initWork_noTeardown(st, privStatus, coneStatus) ==
    LET a == Malloc(st, {"w"})
        b == IF a.d.NORMALIZE = 1 THEN normalizeA(a)
             ELSE [a EXCEPT !.w.D = <<>>, !.w.E = <<>>, !.w.sc_c = 1,
                            !.w.sc_b = 1, !.w.scale = 1]
        l == b.d.n + b.d.m + 1
        c == [Malloc(b, WorkBufs \ {"w"}) EXCEPT
                 !.w.l = l, !.w.u = Zeros(l), !.w.v = Zeros(l),
                 !.w.u_t = Zeros(l), !.w.u_prev = Zeros(l),
                 !.w.h = Zeros(l - 1)]
        p == privateInitWork(c, privStatus)
        q == initCone(p, coneStatus)
    IN  IF privStatus < 0 THEN [p EXCEPT !.ok = FALSE]
        ELSE IF coneStatus < 0 THEN [q EXCEPT !.ok = FALSE]
        ELSE [q EXCEPT !.ok = TRUE]

\* initWork: st.ok tells whether it returned a workspace.
initWork(st, privStatus, coneStatus) ==
    LET a == Malloc(st, {"w"})
        b == IF a.d.NORMALIZE = 1 THEN normalizeA(a)
             ELSE [a EXCEPT !.w.D = <<>>, !.w.E = <<>>, !.w.sc_c = 1,
                            !.w.sc_b = 1, !.w.scale = 1]
        l == b.d.n + b.d.m + 1
        c == [Malloc(b, WorkBufs \ {"w"}) EXCEPT
                 !.w.l = l, !.w.u = Zeros(l), !.w.v = Zeros(l),
                 !.w.u_t = Zeros(l), !.w.u_prev = Zeros(l),
                 !.w.h = Zeros(l - 1)]
        p == privateInitWork(c, privStatus)
        q == initCone(p, coneStatus)
    IN  IF privStatus < 0 THEN [scs_finish_body(p) EXCEPT !.ok = FALSE]
        ELSE IF coneStatus < 0 THEN [scs_finish_body(q) EXCEPT !.ok = FALSE]
        ELSE [q EXCEPT !.ok = TRUE]


\* ------------------------------------------------------- the iterate
\* Entries of a length-l vector: x is 1..n, y is n+1..n+m, tau/kappa is l.
XBlock(dd, a) == SubSeq(a, 1, dd.n)
YBlock(dd, a) == SubSeq(a, dd.n + 1, dd.n + dd.m)

RSeq(a) == [j \in DOMAIN a |-> I(a[j])]

RECURSIVE RInner(_, _)
\* innerProd of a vector of extended rationals with a data vector.
RInner(a, b) ==
    IF a = <<>> \/ b = <<>> THEN I(0)
    ELSE RAdd(RMul(Head(a), I(Head(b))), RInner(Tail(a), Tail(b)))

\* 2-norm of a vector of extended rationals; the residual vectors have
\* one entry (m = n = 1), whose norm is its absolute value.
RNorm(a) == IF a = <<>> THEN I(0) ELSE RAbs(a[1])

coldStartVars(ww) ==
    [ww EXCEPT !.u = [Zeros(ww.l) EXCEPT ![ww.l] = Sqrt(ww.l)],
               !.v = [Zeros(ww.l) EXCEPT ![ww.l] = Sqrt(ww.l)]]

\* normalizeWarmStart is the inverse of the solution's un-normalisation.
warmStartVars(dd, ww, ss) ==
    LET f  == IF dd.NORMALIZE = 1 THEN ww.scale ELSE 1
        wx == [j \in 1..dd.n |-> ss.x.val[j].n * f * ww.sc_b]
        wy == [j \in 1..dd.m |-> ss.y.val[j].n * f * ww.sc_c]
        ws == [j \in 1..dd.m |-> ss.s.val[j].n * f * ww.sc_b]
    IN  [ww EXCEPT !.u = wx \o wy \o <<1>>,
                   !.v = Zeros(dd.n) \o ws \o <<0>>]

\* A warm start the grid can hold: finite whole numbers.
WarmOnGrid(dd, ss) ==
    \A f \in {"x", "y", "s"} :
        /\ ss[f].ptr # "null"
        /\ Len(ss[f].val) = (IF f = "x" THEN dd.n ELSE dd.m)
        /\ \A j \in DOMAIN ss[f].val :
              ss[f].val[j].d = 1 /\ Abs(ss[f].val[j].n) * dd.SCALE <= MaxVal

\* updateWork: the norms of b and c before normalisation, then the start
\* point and h = [c; b].  (g and gTh only feed the subsolver's right-hand
\* side.)
updateWork(st) ==
    LET a == [st EXCEPT !.w.nm_b = calcNorm(st.d.b),
                        !.w.nm_c = calcNorm(st.d.c)]
        b == IF a.d.NORMALIZE = 1 THEN normalizeBC(a) ELSE a
        c == IF b.d.WARM_START = 1
             THEN [b EXCEPT !.w = warmStartVars(b.d, b.w, b.sol)]
             ELSE [b EXCEPT !.w = coldStartVars(b.w)]
    IN  [c EXCEPT !.w.h = c.d.c \o c.d.b]

\* projectLinSys: the first l-1 entries of u_t are what solveLinSys left
\* (z); the last is u[l-1] + v[l-1] + <u_t, h>.
projectLinSys(ww, z) ==
    [ww EXCEPT !.u_t = z \o <<ww.u[ww.l] + ww.v[ww.l] + innerProd(z, ww.h)>>]

\* ALPHA*u_t[j] + (1-ALPHA)*u_prev[j], the relaxed point.
Relaxed(dd, ww, j) ==
    RAdd(RMul(dd.ALPHA, I(ww.u_t[j])),
         RMul(RSub(I(1), dd.ALPHA), I(ww.u_prev[j])))

\* projCone of the cone module: the zero cone's dual is free, the
\* positive orthant clips at 0.
projCone(kk, y) ==
    [j \in DOMAIN y |-> IF j > kk.f /\ y[j] < 0 THEN 0 ELSE y[j]]

\* Faulty variant: tau is not clamped at 0.
projectCones_noClamp(dd, ww, kk) ==
    LET raw == [j \in 1..ww.l |->
                   IF j <= dd.n THEN I(ww.u_t[j] - ww.v[j])
                   ELSE RSub(Relaxed(dd, ww, j), I(ww.v[j]))]
        un  == [j \in 1..ww.l |-> raw[j].n]
        y   == projCone(kk, YBlock(dd, un))
    IN  [ww EXCEPT !.u = XBlock(dd, un) \o y \o <<un[ww.l]>>]

projectCones(dd, ww, kk) ==
    LET raw == [j \in 1..ww.l |->
                   IF j <= dd.n THEN I(ww.u_t[j] - ww.v[j])
                   ELSE RSub(Relaxed(dd, ww, j), I(ww.v[j]))]
        un  == [j \in 1..ww.l |-> raw[j].n]
        y   == projCone(kk, YBlock(dd, un))
        tau == IF un[ww.l] < 0 THEN 0 ELSE un[ww.l]
    IN  [ww EXCEPT !.u = XBlock(dd, un) \o y \o <<tau>>]

\* The relaxed point is on the grid.
OnGrid(dd, ww) ==
    \A j \in (dd.n + 1)..ww.l : Relaxed(dd, ww, j).d = 1

updateDualVars(dd, ww) ==
    [ww EXCEPT !.v =
        [j \in 1..ww.l |->
            IF j <= dd.n THEN ww.v[j]
            ELSE IF dd.ALPHA = I(1)
                 THEN ww.v[j] + (ww.u[j] - ww.u_t[j])
                 ELSE ww.v[j] + RSub(I(ww.u[j]), Relaxed(dd, ww, j)).n]]

InRange(ww) ==
    \A j \in 1..ww.l : Abs(ww.u[j]) <= MaxVal /\ Abs(ww.v[j]) <= MaxVal


\* ------------------------------------------------------- termination
\* scale*sc_c*sc_b, by which kap, cTx and bTy are divided.
ScAll(dd, ww) ==
    IF dd.NORMALIZE = 1 THEN I(ww.scale * ww.sc_c * ww.sc_b) ELSE I(1)

\* accumByAtrans: A'y for A in compressed-column form.
accumByAtrans(dd, y) ==
    [col \in 1..dd.n |->
        LET RECURSIVE Acc(_)
            Acc(p) == IF p > dd.Ap[col + 1] THEN 0
                      ELSE dd.Ax[p] * y[dd.Ai[p] + 1] + Acc(p + 1)
        IN  Acc(dd.Ap[col] + 1)]

\* fastCalcPrimalResid: pr = Ax + s from the three iterates; returns
\* norm(pr - b*tau) and nmAxs = norm(pr), both row-scaled.
fastCalcPrimalResid(dd, ww) ==
    LET tau == Abs(ww.u[ww.l])
        pr  == [j \in 1..dd.m |->
                  RAdd(RAdd(I(ww.u[dd.n + j]),
                            RMul(RSub(dd.ALPHA, I(2)), I(ww.u_prev[dd.n + j]))),
                       RAdd(RMul(RSub(I(1), dd.ALPHA), I(ww.u_t[dd.n + j])),
                            I(dd.b[j] * ww.u_t[ww.l])))]
        sc  == [j \in 1..dd.m |->
                  IF dd.NORMALIZE = 1 THEN Rat(ww.D[j], ww.sc_b * ww.scale)
                  ELSE I(1)]
    IN  [nmAxs |-> RNorm([j \in 1..dd.m |-> RMul(pr[j], sc[j])]),
         pres  |-> RNorm([j \in 1..dd.m |->
                            RMul(RSub(pr[j], I(dd.b[j] * tau)), sc[j])])]

\* calcDualResid: returns norm(A'y + c*tau) and nmATy = norm(A'y).
calcDualResid(dd, ww, y, tau) ==
    LET dr == accumByAtrans(dd, y)
        sc == [j \in 1..dd.n |->
                 IF dd.NORMALIZE = 1 THEN Rat(ww.E[j], ww.sc_c * ww.scale)
                 ELSE I(1)]
    IN  [nmATy |-> RNorm([j \in 1..dd.n |-> RMul(I(dr[j]), sc[j])]),
         dres  |-> RNorm([j \in 1..dd.n |->
                            RMul(I(dr[j] + dd.c[j] * tau), sc[j])])]

\* The quantities exactConverged computes from the workspace.
Resid(dd, ww) ==
    LET x   == XBlock(dd, ww.u)
        y   == YBlock(dd, ww.u)
        tau == Abs(ww.u[ww.l])
        pri == fastCalcPrimalResid(dd, ww)
        dua == calcDualResid(dd, ww, y, tau)
    IN  [tau   |-> I(tau),
         kap   |-> RDiv(I(Abs(ww.v[ww.l])), ScAll(dd, ww)),
         cTx   |-> RDiv(I(innerProd(x, dd.c)), ScAll(dd, ww)),
         bTy   |-> RDiv(I(innerProd(y, dd.b)), ScAll(dd, ww)),
         nmpr  |-> pri.pres, nmAxs |-> pri.nmAxs,
         nmdr  |-> dua.dres, nmATy |-> dua.nmATy]

\* Faulty variant: the sign of c'x is not looked at.
UnbRatio_noSign(ww, q) ==
    RDiv(RMul(I(ww.nm_c), q.nmAxs), RAbs(q.cTx))

\* r->resPri of the unboundedness test, r->resDual of the infeasibility test.
UnbRatio(ww, q) ==
    IF RLt(q.cTx, I(0)) THEN RDiv(RMul(I(ww.nm_c), q.nmAxs), RNeg(q.cTx))
    ELSE NAN
InfRatio(ww, q) ==
    IF RLt(q.bTy, I(0)) THEN RDiv(RMul(I(ww.nm_b), q.nmATy), RNeg(q.bTy))
    ELSE NAN
\* rpri, rdua and gap of the SOLVED test.
Rpri(ww, q) == RDiv(RDiv(q.nmpr, I(1 + ww.nm_b)), q.tau)
Rdua(ww, q) == RDiv(RDiv(q.nmdr, I(1 + ww.nm_c)), q.tau)
Gap(q) == RDiv(RAbs(RAdd(q.cTx, q.bTy)),
               RAdd(q.tau, RAdd(RAbs(q.cTx), RAbs(q.bTy))))

\* Faulty variant: the infeasibility test comes first.
exactConverged_infFirst(dd, ww) ==
    LET q == Resid(dd, ww)
    IN  IF RLt(InfRatio(ww, q), dd.EPS) THEN INFEASIBLE
        ELSE IF RLt(UnbRatio(ww, q), dd.EPS) THEN UNBOUNDED
        ELSE IF /\ RLt(q.kap, q.tau)
                /\ RLt(RMax(RMax(Rpri(ww, q), Rdua(ww, q)), Gap(q)), dd.EPS)
             THEN SOLVED
        ELSE 0

\* Faulty variant: the duality gap is left out of the SOLVED test.
exactConverged_noGap(dd, ww) ==
    LET q == Resid(dd, ww)
    IN  IF RLt(UnbRatio(ww, q), dd.EPS) THEN UNBOUNDED
        ELSE IF RLt(InfRatio(ww, q), dd.EPS) THEN INFEASIBLE
        ELSE IF /\ RLt(q.kap, q.tau)
                /\ RLt(RMax(Rpri(ww, q), Rdua(ww, q)), dd.EPS)
             THEN SOLVED
        ELSE 0

exactConverged(dd, ww) ==
    LET q == Resid(dd, ww)
    IN  IF RLt(UnbRatio(ww, q), dd.EPS) THEN UNBOUNDED
        ELSE IF RLt(InfRatio(ww, q), dd.EPS) THEN INFEASIBLE
        ELSE IF /\ RLt(q.kap, q.tau)
                /\ RLt(RMax(RMax(Rpri(ww, q), Rdua(ww, q)), Gap(q)), dd.EPS)
             THEN SOLVED
        ELSE 0

\* Faulty variant: the exact test runs in every iteration.
converged_everyIter(dd, ww, iter) == exactConverged(dd, ww)

converged(dd, ww, iter) ==
    IF iter % CONVERGED_INTERVAL = 0 THEN exactConverged(dd, ww) ELSE 0


\* -------------------------------------------------- solution extractor
\* setx / sety / sets: allocate only a NULL vector, then copy the iterate.
SetVec(st, f, alloc, vals) ==
    IF st.sol[f].ptr = "null"
    THEN [st EXCEPT !.sol[f] = [ptr |-> "solver", val |-> RSeq(vals)],
                    !.cnt[alloc] = @ + 1]
    ELSE [st EXCEPT !.sol[f].val = RSeq(vals)]

setx(st) == SetVec(st, "x", "allocx", XBlock(st.d, st.w.u))
sety(st) == SetVec(st, "y", "allocy", YBlock(st.d, st.w.u))
sets(st) == SetVec(st, "s", "allocs", YBlock(st.d, st.w.v))

solved(st, tau) ==
    [st EXCEPT !.info.status = "Solved", !.info.statusVal = SOLVED,
               !.sol.x.val = scaleArray(@, RDiv(I(1), tau)),
               !.sol.y.val = scaleArray(@, RDiv(I(1), tau)),
               !.sol.s.val = scaleArray(@, RDiv(I(1), tau))]

indeterminate(st) ==
    [st EXCEPT !.info.status = "Indeterminate", !.info.statusVal = INDETERMINATE,
               !.sol.x.val = scaleArray(@, NAN),
               !.sol.y.val = scaleArray(@, NAN),
               !.sol.s.val = scaleArray(@, NAN)]

infeasible(st) ==
    [st EXCEPT !.info.status = "Infeasible", !.info.statusVal = INFEASIBLE,
               !.sol.x.val = scaleArray(@, NAN),
               !.sol.s.val = scaleArray(@, NAN)]

unbounded(st) ==
    [st EXCEPT !.info.status = "Unbounded", !.info.statusVal = UNBOUNDED,
               !.sol.y.val = scaleArray(@, NAN)]

\* The classification of a run that did not end on a certificate.
Classify(st) ==
    LET tau == I(st.w.u[st.w.l])
        kap == I(Abs(st.w.v[st.w.l]))
    IN  IF RLt(st.d.UNDET_TOL, tau) /\ RLt(kap, tau) THEN solved(st, tau)
        ELSE IF RLt(I(calcNorm(st.w.u)),
                    RMul(st.d.UNDET_TOL, I(Sqrt(st.w.l))))
             THEN indeterminate(st)
        ELSE LET bTy == RInner(st.sol.y.val, st.d.b)
                 cTx == RInner(st.sol.x.val, st.d.c)
             IN  IF RLt(bTy, cTx) THEN infeasible(st) ELSE unbounded(st)

\* Faulty variant: only the sentinel 0 is classified, SOLVED falls through.
setSolution_zeroOnly(st) ==
    LET a == sets(sety(setx(st)))
    IN  IF a.info.statusVal = 0 THEN Classify(a)
        ELSE IF a.info.statusVal = INFEASIBLE THEN infeasible(a)
        ELSE unbounded(a)

\* Faulty variant: a run that ended on the sentinel 0 is not classified.
setSolution_keepSentinel(st) ==
    LET a == sets(sety(setx(st)))
    IN  IF a.info.statusVal = 0 THEN a
        ELSE IF a.info.statusVal = SOLVED THEN Classify(a)
        ELSE IF a.info.statusVal = INFEASIBLE THEN infeasible(a)
        ELSE unbounded(a)

setSolution(st) ==
    LET a == sets(sety(setx(st)))
    IN  IF a.info.statusVal = 0 \/ a.info.statusVal = SOLVED THEN Classify(a)
        ELSE IF a.info.statusVal = INFEASIBLE THEN infeasible(a)
        ELSE unbounded(a)

\* getInfo: the objectives, then the certificate is scaled to c'x = -1
\* (UNBOUNDED) or b'y = -1 (every other status but SOLVED).
getInfo(st) ==
    LET cTx == RDiv(RInner(st.sol.x.val, st.d.c), ScAll(st.d, st.w))
        bTy == RDiv(RInner(st.sol.y.val, st.d.b), ScAll(st.d, st.w))
    IN  IF st.info.statusVal = SOLVED
        THEN [st EXCEPT !.info.pobj = cTx, !.info.dobj = RNeg(bTy)]
        ELSE IF st.info.statusVal = UNBOUNDED
        THEN [st EXCEPT !.info.pobj = I(-1), !.info.dobj = NAN,
                        !.sol.x.val = scaleArray(@, RDiv(I(-1), cTx)),
                        !.sol.s.val = scaleArray(@, RDiv(I(-1), cTx))]
        ELSE [st EXCEPT !.info.pobj = NAN, !.info.dobj = I(-1),
                        !.sol.y.val = scaleArray(@, RDiv(I(-1), bTy))]


\* -------------------------------------------------------------- Init
NullVec == [ptr |-> "null", val |-> <<>>]
CallerVec(x) == [ptr |-> "caller", val |-> <<I(x)>>]
NullSol == [x |-> NullVec, y |-> NullVec, s |-> NullVec]

\* Caller buffers, any subset of the three vectors supplied.
AnySol == [x : {NullVec, CallerVec(0)}, y : {NullVec, CallerVec(0)},
           s : {NullVec, CallerVec(0)}]
\* Warm starts the caller supplies.
WarmSol == [x : {CallerVec(-1), CallerVec(1)}, y : {CallerVec(0), CallerVec(1)},
            s : {CallerVec(0)}]

Alphas == {Half, I(1), Rat(3, 2)}
Epss == {Half, I(2)}
UndetTols == {Half, I(2)}
Cones == {GoodCone(1, 0), GoodCone(0, 1)}

\* Rejected arguments: a NULL pointer or one failing validator test.
RejectedInputs ==
    {[mode |-> md, d |-> dd, k |-> GoodCone(1, 0), sol |-> ss] :
        md \in {"scs", "api"}, dd \in BadData \cup {NullData}, ss \in AnySol}
    \cup
    {[mode |-> md, d |-> BaseData, k |-> kk, sol |-> ss] :
        md \in {"scs", "api"}, kk \in BadCone \cup {NullCone}, ss \in AnySol}

\* Short solves over the numeric parameters.
NumericInputs ==
    {[mode |-> "scs",
      d |-> GoodData(b, c, al, ep, mi, nz, ws, ut), k |-> kk,
      sol |-> ss] :
        b \in {-1, 1}, c \in {-1, 1}, al \in Alphas, ep \in Epss, mi \in {0, 1},
        nz \in {0, 1}, ws \in {0, 1}, ut \in UndetTols, kk \in Cones,
        ss \in WarmSol \cup {NullSol}}

\* Long cold solves, so that the loop passes several convergence checks.
LongInputs ==
    {[mode |-> "scs",
      d |-> GoodData(b, c, al, ep, MaxIters, nz, 0, Half), k |-> GoodCone(1, 0),
      sol |-> NullSol] :
        b \in {-1, 1}, c \in {-1, 1}, al \in Alphas, ep \in Epss, nz \in {0, 1}}

\* One workspace used for several solves through scs_init / scs_solve /
\* scs_finish, with and without caller buffers.
ReuseInputs ==
    {[mode |-> "api",
      d |-> GoodData(1, 1, I(1), Half, mi, nz, ws, Half), k |-> GoodCone(1, 0),
      sol |-> ss] :
        mi \in {0, 1}, nz \in {0, 1}, ws \in {0, 1},
        ss \in AnySol \cup {[x |-> CallerVec(1), y |-> CallerVec(1),
                              s |-> CallerVec(0)]}}

Inputs == RejectedInputs \cup NumericInputs \cup LongInputs \cup ReuseInputs

NoInfo == [statusVal |-> 0, status |-> "", iter |-> 0, pobj |-> NAN, dobj |-> NAN]
NoCnt == [solve |-> 0, finish |-> 0, normA |-> 0, unnormA |-> 0,
          normBC |-> 0, unnormBC |-> 0, allocx |-> 0, allocy |-> 0, allocs |-> 0]
NoChk == [iter |-> -1, val |-> 0]

Init ==
    \E a \in Inputs :
        /\ a.d.present /\ a.d.WARM_START = 1 => WarmOnGrid(a.d, a.sol)
        /\ in = a
        /\ mode = a.mode
        /\ d = a.d
        /\ k = a.k
        /\ sol = a.sol
        /\ pc = "idle"
        /\ info = NoInfo
        /\ w = NoWork
        /\ heap = [b \in AllBufs |-> [allocs |-> 0, frees |-> 0]]
        /\ i = 0
        /\ chk = NoChk
        /\ ret = "none"
        /\ cnt = NoCnt
        /\ log = <<>>

\* ----------------------------------------------------------- actions
St == [d |-> d, sol |-> sol, info |-> info, w |-> w, heap |-> heap,
       cnt |-> cnt, log |-> log, ok |-> TRUE]

Put(st) ==
    /\ d' = st.d
    /\ sol' = st.sol
    /\ info' = st.info
    /\ w' = st.w
    /\ heap' = st.heap
    /\ cnt' = st.cnt
    /\ log' = st.log

\* What scs / scs_init hand back once scs_init has failed.
FailReturn(st, dn, dm) ==
    LET f == failureDefaultReturn(dn, dm, st.sol, st.cnt)
    IN  /\ Put([st EXCEPT !.info = f.info, !.sol = f.sol, !.cnt = f.cnt])
        /\ pc' = "returned"
        /\ ret' = IF mode = "scs" THEN FAILURE ELSE "NULL"

\* scs_init (as scs calls it first): NULL check, validate, initWork.
\* failureDefaultReturn reads d->n and d->m also when d is NULL: the read
\* either faults or yields whatever is at that address.
scs_init ==
    /\ pc = "idle"
    /\ UNCHANGED <<mode, k, i, chk, in>>
    /\ IF ~d.present
       THEN \/ /\ pc' = "crashed"
               /\ info' = [info EXCEPT !.statusVal = FAILURE,
                                       !.status = "Failure", !.iter = -1]
               /\ UNCHANGED <<d, sol, w, heap, cnt, log, ret>>
            \/ \E gn \in GarbageDims, gm \in GarbageDims : FailReturn(St, gn, gm)
       ELSE IF ~k.present \/ validate(d, k) < 0
       THEN FailReturn(St, d.n, d.m)
       ELSE \E privStatus \in {0, -1}, coneStatus \in {0, -1} :
               LET st == initWork(St, privStatus, coneStatus)
               IN  IF st.ok
                   THEN /\ Put(st)
                        /\ pc' = "ready"
                        /\ ret' = ret
                   ELSE FailReturn(st, d.n, d.m)

\* scs_solve up to the loop: statusVal = 0, updateWork.
scs_solve_begin ==
    /\ pc = "ready"
    /\ cnt.solve < (IF mode = "scs" THEN 1 ELSE MaxSolves)
    /\ d.WARM_START = 1 => WarmOnGrid(d, sol)
    /\ Put(updateWork([St EXCEPT !.info.statusVal = 0, !.cnt.solve = @ + 1]))
    /\ i' = 0
    /\ chk' = NoChk
    /\ pc' = "loop"
    /\ UNCHANGED <<mode, k, ret, in>>

\* One pass of the loop body, z being what solveLinSys wrote.
LoopBody(ww, z) ==
    LET a == [ww EXCEPT !.u_prev = ww.u]
        b == projectLinSys(a, z)
        c == projectCones(d, b, k)
    IN  updateDualVars(d, c)

scs_solve_iter ==
    /\ pc = "loop"
    /\ i < d.MAX_ITERS
    /\ \E z \in [1..(w.l - 1) -> LinSysOut] :
          LET b  == projectLinSys([w EXCEPT !.u_prev = w.u], z)
              ww == LoopBody(w, z)
              sv == converged(d, ww, i)
          IN  /\ OnGrid(d, b)
              /\ InRange(ww)
              /\ w' = ww
              /\ info' = [info EXCEPT !.statusVal = sv]
              /\ chk' = [iter |-> i, val |-> sv]
              /\ IF sv # 0 THEN pc' = "extract" /\ i' = i
                           ELSE pc' = "loop" /\ i' = i + 1
    /\ UNCHANGED <<mode, d, k, sol, heap, ret, cnt, log, in>>

\* After the loop: setSolution, info->iter, getInfo, unNormalizeSolBC.
scs_solve_end ==
    /\ pc = "extract" \/ (pc = "loop" /\ i >= d.MAX_ITERS)
    /\ LET a == setSolution(St)
           b == getInfo([a EXCEPT !.info.iter = i])
           c == IF d.NORMALIZE = 1 THEN unNormalizeSolBC(b) ELSE b
       IN  Put(c)
    /\ pc' = "ready"
    /\ UNCHANGED <<mode, k, i, chk, ret, in>>

\* scs_finish; in scs it follows the one scs_solve and scs returns
\* info->statusVal.
scs_finish ==
    /\ pc = "ready"
    /\ mode = "scs" => cnt.solve = 1
    /\ Put(scs_finish_body(St))
    /\ pc' = "returned"
    /\ ret' = IF mode = "scs" THEN info.statusVal ELSE "void"
    /\ UNCHANGED <<mode, k, i, chk, in>>

Next ==
    \/ scs_init
    \/ scs_solve_begin
    \/ scs_solve_iter
    \/ scs_solve_end
    \/ scs_finish

Spec == Init /\ [][Next]_vars


\* ------------------------------------------------------------ claims
Statuses == {SOLVED, UNBOUNDED, INFEASIBLE, INDETERMINATE, FAILURE}

\* scs_solve has returned (and scs_finish has not run yet).
SolveReturned == pc = "ready" /\ cnt.solve >= 1
\* scs has returned.
ScsReturned == pc = "returned" /\ mode = "scs"

\* The data as scs_solve saw it: h = [c; b] keeps the scaled c and b.
AtSolve == [d EXCEPT !.c = XBlock(d, w.h), !.b = YBlock(d, w.h)]

\* The three tests of the termination check, on the workspace as it is.
UnbTest ==
    LET q == Resid(AtSolve, w)
    IN  /\ RLt(q.cTx, I(0))
        /\ RLt(RDiv(RMul(I(w.nm_c), q.nmAxs), RNeg(q.cTx)), d.EPS)
InfTest ==
    LET q == Resid(AtSolve, w)
    IN  /\ RLt(q.bTy, I(0))
        /\ RLt(RDiv(RMul(I(w.nm_b), q.nmATy), RNeg(q.bTy)), d.EPS)
ThreeTolerances ==
    LET q == Resid(AtSolve, w)
    IN  /\ RLt(RDiv(q.nmpr, RMul(I(1 + w.nm_b), q.tau)), d.EPS)
        /\ RLt(RDiv(q.nmdr, RMul(I(1 + w.nm_c), q.tau)), d.EPS)
        /\ RLt(RDiv(RAbs(RAdd(q.cTx, q.bTy)),
                    RAdd(q.tau, RAdd(RAbs(q.cTx), RAbs(q.bTy)))), d.EPS)
SolTest ==
    LET q == Resid(AtSolve, w)
    IN  RLt(q.kap, q.tau) /\ ThreeTolerances

\* c'x and b'y of the solution handed back.
FinalCTx == RInner(sol.x.val, d.c)
FinalBTy == RInner(sol.y.val, d.b)
\* c'x and b'y of the raw iterate.
RawCTx == innerProd(XBlock(d, w.u), XBlock(d, w.h))
RawBTy == innerProd(YBlock(d, w.u), YBlock(d, w.h))

\* C1: when scs_solve or scs returns, info.statusVal is one of SOLVED,
\* UNBOUNDED, INFEASIBLE, INDETERMINATE, FAILURE, never the sentinel 0, and
\* scs returns that value.
C1_StatusNeverZero ==
    /\ SolveReturned => info.statusVal \in Statuses
    /\ ScsReturned => ret \in Statuses /\ ret = info.statusVal

\* A run that used up MAX_ITERS with every check answering 0 has returned.
C1_Witness ==
    /\ ScsReturned
    /\ info.iter = d.MAX_ITERS
    /\ d.MAX_ITERS = MaxIters
    /\ chk.val = 0
    /\ ret = UNBOUNDED

\* C2 as stated: SOLVED at the return of scs_solve means the final iterate
\* meets the three EPS tolerances, however the loop ended.
C2_SolvedMeetsTolerances ==
    SolveReturned /\ info.statusVal = SOLVED => ThreeTolerances

\* C2 amended: SOLVED with info.iter < MAX_ITERS (the loop broke on a
\* check) means the final iterate meets the three EPS tolerances.
C2_SolvedOnCheckMeetsTolerances ==
    SolveReturned /\ info.statusVal = SOLVED /\ info.iter < d.MAX_ITERS
        => ThreeTolerances

C2_Witness ==
    /\ SolveReturned
    /\ info.statusVal = SOLVED
    /\ info.iter = CONVERGED_INTERVAL
    /\ info.iter < d.MAX_ITERS
    /\ ThreeTolerances

\* C3 as stated: UNBOUNDED is returned with c'x < 0 and INFEASIBLE with
\* b'y < 0, however the loop ended.
C3_CertificateSign ==
    SolveReturned =>
        /\ info.statusVal = UNBOUNDED => RLt(FinalCTx, I(0))
        /\ info.statusVal = INFEASIBLE => RLt(FinalBTy, I(0))

\* C3 amended: when the loop broke on a check that answered UNBOUNDED
\* (INFEASIBLE), scs_solve returns that status, the iterate has c'x < 0
\* (b'y < 0) and so has the solution handed back.
C3_CheckedCertificateSign ==
    SolveReturned =>
        /\ chk.val = UNBOUNDED =>
              info.statusVal = UNBOUNDED /\ RawCTx < 0 /\ RLt(FinalCTx, I(0))
        /\ chk.val = INFEASIBLE =>
              info.statusVal = INFEASIBLE /\ RawBTy < 0 /\ RLt(FinalBTy, I(0))

C3_Witness ==
    /\ SolveReturned
    /\ chk.val = INFEASIBLE
    /\ info.statusVal = INFEASIBLE
    /\ d.NORMALIZE = 1
    /\ RawBTy < 0
    /\ RLt(FinalBTy, I(0))

\* The arguments are rejected, or initialisation failed.
Rejected == ~in.d.present \/ ~in.k.present \/ validate(in.d, in.k) < 0
InitFailed ==
    \E j \in DOMAIN log : log[j] \in {"privateInitWork-", "initCone-"}

\* C4: on rejected arguments or failed initialisation scs does not abort
\* the process and runs no iteration, and it returns FAILURE with
\* info.statusVal = FAILURE, info.status = "Failure" and sol.x, sol.y,
\* sol.s filled with NaN (lengths n, m, m).
C4_FailureReturn ==
    mode = "scs" /\ (Rejected \/ InitFailed) =>
        /\ pc # "crashed"
        /\ cnt.solve = 0
        /\ pc = "returned" =>
              /\ ret = FAILURE
              /\ info.statusVal = FAILURE
              /\ info.status = "Failure"
              /\ in.d.present =>
                    /\ sol.x.val = NaNs(in.d.n)
                    /\ sol.y.val = NaNs(in.d.m)
                    /\ sol.s.val = NaNs(in.d.m)

\* C5: exactConverged answers UNBOUNDED whenever the unboundedness test
\* holds, INFEASIBLE only if that test fails and the infeasibility test
\* holds, SOLVED only if both fail and tau > kappa with the three ratios
\* below EPS, and 0 when none of the three holds.
C5_TestOrder ==
    pc \in {"loop", "extract"} /\ chk.iter >= 0
        /\ chk.iter % CONVERGED_INTERVAL = 0 =>
        /\ UnbTest => chk.val = UNBOUNDED
        /\ chk.val = UNBOUNDED => UnbTest
        /\ chk.val = INFEASIBLE => ~UnbTest /\ InfTest
        /\ chk.val = SOLVED => ~UnbTest /\ ~InfTest /\ SolTest
        /\ ~UnbTest /\ ~InfTest /\ ~SolTest => chk.val = 0
        /\ chk.val \in {UNBOUNDED, INFEASIBLE, SOLVED, 0}

\* Both certificate tests hold at once and the answer is UNBOUNDED.
C5_Witness ==
    /\ pc = "extract"
    /\ chk.val = UNBOUNDED
    /\ UnbTest
    /\ InfTest


\* C6: when scs returns, or scs_finish has returned, A, b and c are in
\* their original scaling and every normalisation has been matched by one
\* un-normalisation; after each scs_solve on a live workspace b and c are
\* in their original scaling and A has not been restored yet.
C6_ScalingUndone ==
    /\ pc = "returned" =>
          /\ d.Ax = in.d.Ax /\ d.b = in.d.b /\ d.c = in.d.c
          /\ cnt.normA = cnt.unnormA /\ cnt.normA <= 1
          /\ cnt.normBC = cnt.unnormBC
    /\ SolveReturned =>
          /\ d.b = in.d.b /\ d.c = in.d.c
          /\ cnt.normBC = cnt.unnormBC
          /\ cnt.unnormA = 0
          /\ d.NORMALIZE = 1 => cnt.normBC = cnt.solve /\ cnt.normA = 1

\* A workspace with NORMALIZE=1 was used for two solves and then finished.
C6_Witness ==
    /\ pc = "returned"
    /\ mode = "api"
    /\ d.NORMALIZE = 1
    /\ cnt.solve = 2
    /\ cnt.unnormBC = 2
    /\ cnt.unnormA = 1
    /\ d.Ax = in.d.Ax

\* C7: no workspace buffer is freed twice or allocated twice; when the
\* call has returned every buffer allocated has been freed, by the one
\* scs_finish of the failing initWork or by the caller's one scs_finish.
C7_WorkspaceReleased ==
    /\ \A b \in AllBufs : heap[b].frees <= heap[b].allocs /\ heap[b].allocs <= 1
    /\ pc = "returned" =>
          /\ \A b \in AllBufs : heap[b].frees = heap[b].allocs
          /\ heap["w"].allocs = 1 => cnt.finish = 1
    /\ pc \in {"ready", "loop", "extract"} =>
          /\ cnt.finish = 0
          /\ \A b \in WorkBufs : heap[b].allocs = 1 /\ heap[b].frees = 0

\* initCone failed with NORMALIZE=1: all of the workspace has been freed.
C7_Witness ==
    /\ pc = "returned"
    /\ \E j \in DOMAIN log : log[j] = "initCone-"
    /\ d.NORMALIZE = 1
    /\ \A b \in AllBufs : heap[b].allocs = 1 /\ heap[b].frees = 1

C9_CallerBuffersKept ==
    ScsReturned \/ SolveReturned \/ (pc = "returned" /\ ret = "NULL") =>
        /\ in.sol.x.ptr = "caller" => sol.x.ptr = "caller" /\ cnt.allocx = 0
        /\ in.sol.y.ptr = "caller" => sol.y.ptr = "caller" /\ cnt.allocy = 0
        /\ in.sol.s.ptr = "caller" => sol.s.ptr = "caller" /\ cnt.allocs = 0
        /\ in.sol.x.ptr = "null" => sol.x.ptr = "solver" /\ cnt.allocx = 1
        /\ in.sol.y.ptr = "null" => sol.y.ptr = "solver" /\ cnt.allocy = 1
        /\ in.sol.s.ptr = "null" => sol.s.ptr = "solver" /\ cnt.allocs = 1

\* C10: converged() answers 0 at every iteration whose index is not a
\* multiple of CONVERGED_INTERVAL and the verdict of the three tests at
\* every multiple; so when scs_solve returns, info.iter is a multiple of
\* CONVERGED_INTERVAL below MAX_ITERS or is MAX_ITERS, and it is
\* MAX_ITERS exactly when no check answered non-zero.
C10_CheckInterval ==
    /\ pc \in {"loop", "extract"} /\ chk.iter >= 0 =>
          IF chk.iter % CONVERGED_INTERVAL = 0
          THEN chk.val # 0 <=> (UnbTest \/ InfTest \/ SolTest)
          ELSE chk.val = 0
    /\ pc = "extract" <=> (pc \in {"loop", "extract"} /\ chk.val # 0)
    /\ SolveReturned =>
          /\ \/ info.iter = d.MAX_ITERS
             \/ info.iter % CONVERGED_INTERVAL = 0 /\ info.iter < d.MAX_ITERS
          /\ info.iter = d.MAX_ITERS <=> chk.val = 0

\* The check at index 20 ended a solve with MAX_ITERS = 21.
C10_Witness ==
    /\ SolveReturned
    /\ info.iter = CONVERGED_INTERVAL
    /\ d.MAX_ITERS > CONVERGED_INTERVAL
    /\ chk.val # 0

Before(j, names) == \E h \in 1..(j - 1) : log[h] \in names
Calls(name) == Cardinality({j \in DOMAIN log : log[j] = name})

\* C12 as stated: finishCone is called only after an initCone call that
\* reported success, and freePriv only after a privateInitWork call that
\* reported success.
C12_TeardownAfterSetup ==
    \A j \in DOMAIN log :
        /\ log[j] = "finishCone" => \E h \in 1..(j - 1) : log[h] = "initCone+"
        /\ log[j] = "freePriv" =>
              \E h \in 1..(j - 1) : log[h] = "privateInitWork+"

\* C12 amended: finishCone and freePriv are called only after
\* privateInitWork has been called, finishCone after initCone has been
\* called too unless privateInitWork failed, and each at most once; when
\* the call has returned after reaching initWork each has been called
\* exactly once, whether setup succeeded or failed; on rejected arguments
\* no collaborator is called.
C12_TeardownAfterInitWork ==
    /\ \A j \in DOMAIN log :
          /\ log[j] \in {"finishCone", "freePriv"} =>
                Before(j, {"privateInitWork+", "privateInitWork-"})
          /\ log[j] = "finishCone" =>
                Before(j, {"privateInitWork-", "initCone+", "initCone-"})
    /\ Calls("finishCone") <= 1
    /\ Calls("freePriv") <= 1
    /\ pc = "returned" /\ log # <<>> =>
          Calls("finishCone") = 1 /\ Calls("freePriv") = 1
    /\ pc \in {"returned", "crashed"} /\ Rejected => log = <<>>

\* privateInitWork failed: both teardown calls ran, initCone never did.
C12_Witness ==
    /\ pc = "returned"
    /\ log = <<"privateInitWork-", "finishCone", "freePriv">>

=============================================================================
